---- MODULE Spec2Model ----
(***************************************************************************)
(* Model of usgslsprepare.py: the command-line driver `main`, which for    *)
(* each dataset directory derives a metadata document (prepare_datasets,   *)
(* prep_dataset, band_name, crazy_parse) and writes it to                  *)
(* agdc-metadata.yaml inside that directory.                               *)
(*                                                                         *)
(* Strings are sequences of one-character strings, so that slicing,        *)
(* suffix tests and regular-expression matching are computed as the code   *)
(* computes them.  A datetime is a record [day, sec]: the proleptic        *)
(* Gregorian ordinal of the date (as datetime.toordinal) and the second of *)
(* the day.  A call that can raise returns [ok |-> TRUE, val |-> v] or     *)
(* [ok |-> FALSE, exc |-> type, msg |-> message].                          *)
(***************************************************************************)
EXTENDS Integers, Sequences, FiniteSets, TLC

(***************************************************************************)
(* Bounds of the model.                                                    *)
(***************************************************************************)
\* Longest list of directories handed to main.
MaxDirs == 2
\* Number of distinct values uuid.uuid4() is drawn from.
NumUuids == 2

(***************************************************************************)
(* Characters and strings.                                                 *)
(***************************************************************************)
DigitSeq == <<"0","1","2","3","4","5","6","7","8","9">>

Digits == {DigitSeq[k] : k \in 1..10}

IsDigits(s) == \A k \in 1..Len(s) : s[k] \in Digits

DigitVal(c) == (CHOOSE k \in 1..10 : DigitSeq[k] = c) - 1

\* int(s) for a string of decimal digits.
RECURSIVE IntOf(_)
IntOf(s) ==
    IF s = <<>> THEN 0
    ELSE 10 * IntOf(SubSeq(s, 1, Len(s) - 1)) + DigitVal(s[Len(s)])

Min(a, b) == IF a < b THEN a ELSE b

Max(a, b) == IF a > b THEN a ELSE b

\* s[a:b] with 0 <= a <= b (Python slice: clipped to the string, never raises).
Slice(s, a, b) == SubSeq(s, Min(a, Len(s)) + 1, Min(b, Len(s)))

\* s[a:]
SliceFrom(s, a) == SubSeq(s, Min(a, Len(s)) + 1, Len(s))

\* s[-n:]
LastN(s, n) == SubSeq(s, Max(Len(s) - n, 0) + 1, Len(s))

\* s[:-n]
DropLastN(s, n) == SubSeq(s, 1, Max(Len(s) - n, 0))

\* s.endswith(suffix)
EndsWith(s, suffix) == Len(s) >= Len(suffix) /\ LastN(s, Len(suffix)) = suffix

\* s.find(c) for a single character c: 0-based index of the first c, or -1.
Find(s, c) ==
    IF \E k \in 1..Len(s) : s[k] = c
    THEN (CHOOSE k \in 1..Len(s) : s[k] = c /\ \A j \in 1..(k - 1) : s[j] # c) - 1
    ELSE -1

\* s.replace(c, "") for a single character c.
RemoveChar(s, c) == SelectSeq(s, LAMBDA x : x # c)

(***************************************************************************)
(* datetime and timedelta arithmetic.                                      *)
(***************************************************************************)
SecondsPerDay == 86400

IsLeap(y) == (y % 4 = 0) /\ ((y % 100 # 0) \/ (y % 400 = 0))

DaysInMonth(y, m) ==
    IF m = 2 THEN (IF IsLeap(y) THEN 29 ELSE 28)
    ELSE IF m \in {4, 6, 9, 11} THEN 30 ELSE 31

DaysBeforeYear(y) ==
    (y - 1) * 365 + ((y - 1) \div 4) - ((y - 1) \div 100) + ((y - 1) \div 400)

RECURSIVE DaysBeforeMonth(_, _)
DaysBeforeMonth(y, m) ==
    IF m = 1 THEN 0 ELSE DaysBeforeMonth(y, m - 1) + DaysInMonth(y, m - 1)

\* date(y, m, d).toordinal()
Ymd2Ord(y, m, d) == DaysBeforeYear(y) + DaysBeforeMonth(y, m) + d

\* datetime(y, m, d, hh, mm, ss)
DateTime(y, m, d, hh, mm, ss) ==
    [day |-> Ymd2Ord(y, m, d), sec |-> hh * 3600 + mm * 60 + ss]

\* dt + timedelta(seconds=n), n of either sign.
AddSeconds(dt, n) ==
    [day |-> dt.day + ((dt.sec + n) \div SecondsPerDay),
     sec |-> (dt.sec + n) % SecondsPerDay]

\* dt + timedelta(days=n)
AddDays(dt, n) == [day |-> dt.day + n, sec |-> dt.sec]

\* a - b as a number of seconds.
SecondsBetween(a, b) == (a.day - b.day) * SecondsPerDay + (a.sec - b.sec)

Ok(v) == [ok |-> TRUE, val |-> v]

\* A raised exception: its type, its message, and the value the message is
\* formatted with (<<>> when the message names no value).
Raise(e, m, arg) == [ok |-> FALSE, exc |-> e, msg |-> m, arg |-> arg]

(***************************************************************************)
(* dateutil.parser.parse on the strings the program builds: eight date     *)
(* digits YYYYMMDD, the letter T, and a time of day written HH, HHMM,      *)
(* HHMMSS, HH:MM or HH:MM:SS (or nothing, which is midnight).  The fields  *)
(* are range-checked in the order of the datetime constructor.             *)
(***************************************************************************)
\* The time-of-day fields <<hh, mm, ss>> of the text after the T, or <<>>
\* when the text has none of the shapes above.
TimeFields(t) ==
    IF t = <<>> THEN <<0, 0, 0>>
    ELSE IF IsDigits(t) /\ Len(t) = 2 THEN <<IntOf(t), 0, 0>>
    ELSE IF IsDigits(t) /\ Len(t) = 4
        THEN <<IntOf(Slice(t, 0, 2)), IntOf(Slice(t, 2, 4)), 0>>
    ELSE IF IsDigits(t) /\ Len(t) = 6
        THEN <<IntOf(Slice(t, 0, 2)), IntOf(Slice(t, 2, 4)), IntOf(Slice(t, 4, 6))>>
    ELSE IF Len(t) = 5 /\ t[3] = ":" /\ IsDigits(Slice(t, 0, 2)) /\ IsDigits(Slice(t, 3, 5))
        THEN <<IntOf(Slice(t, 0, 2)), IntOf(Slice(t, 3, 5)), 0>>
    ELSE IF Len(t) = 8 /\ t[3] = ":" /\ t[6] = ":" /\ IsDigits(Slice(t, 0, 2))
            /\ IsDigits(Slice(t, 3, 5)) /\ IsDigits(Slice(t, 6, 8))
        THEN <<IntOf(Slice(t, 0, 2)), IntOf(Slice(t, 3, 5)), IntOf(Slice(t, 6, 8))>>
    ELSE <<>>

\* The datetime of the fields, or the ValueError of the first field out of range.
ParseFields(y, m, d, tf) ==
    IF tf = <<>> THEN Raise("ValueError", "Unknown string format", <<>>)
    ELSE IF y < 1 THEN Raise("ValueError", "year is out of range", <<>>)
    ELSE IF m < 1 \/ m > 12 THEN Raise("ValueError", "month must be in 1..12", <<>>)
    ELSE IF d < 1 \/ d > DaysInMonth(y, m)
        THEN Raise("ValueError", "day is out of range for month", <<>>)
    ELSE IF tf[1] > 23 THEN Raise("ValueError", "hour must be in 0..23", <<>>)
    ELSE IF tf[2] > 59 THEN Raise("ValueError", "minute must be in 0..59", <<>>)
    ELSE IF tf[3] > 59 THEN Raise("ValueError", "second must be in 0..59", <<>>)
    ELSE Ok(DateTime(y, m, d, tf[1], tf[2], tf[3]))

Parse(timestr) ==
    IF ~(Len(timestr) >= 9 /\ IsDigits(Slice(timestr, 0, 8)) /\ timestr[9] = "T")
    THEN Raise("ValueError", "Unknown string format", <<>>)
    ELSE ParseFields(IntOf(Slice(timestr, 0, 4)), IntOf(Slice(timestr, 4, 6)),
                     IntOf(Slice(timestr, 6, 8)), TimeFields(SliceFrom(timestr, 9)))

(***************************************************************************)
(* crazy_parse: parse, and on a ValueError for a string whose last two     *)
(* characters are "60", parse again with them rewritten to "00" and add a  *)
(* minute.                                                                 *)
(***************************************************************************)
\* return parser.parse(timestr[:-2]+'00') + timedelta(minutes=1)
crazy_parseRetry(retried) ==
    IF retried.ok THEN Ok(AddSeconds(retried.val, 60)) ELSE retried

\* The try statement, given the outcome of parser.parse(timestr).
crazy_parseTry(timestr, parsed) ==
    IF parsed.ok THEN parsed
    ELSE IF ~(LastN(timestr, 2) = <<"6","0">>) THEN parsed
    ELSE crazy_parseRetry(Parse(DropLastN(timestr, 2) \o <<"0","0">>))

crazy_parse(timestr) == crazy_parseTry(timestr, Parse(timestr))

(***************************************************************************)
(* str(datetime): "YYYY-MM-DD HH:MM:SS".                                   *)
(***************************************************************************)
\* The decimal digits of n, zero-padded to width w.
RECURSIVE Pad(_, _)
Pad(n, w) == IF w = 0 THEN <<>> ELSE Pad(n \div 10, w - 1) \o <<DigitSeq[(n % 10) + 1]>>

\* The year, the day of the year, the month and the day of the month of a
\* date ordinal (date.fromordinal).
YearOf(ord) ==
    CHOOSE yy \in (ord \div 366)..((ord \div 365) + 1) :
        DaysBeforeYear(yy) < ord /\ ord <= DaysBeforeYear(yy + 1)

DayOfYear(ord) == ord - DaysBeforeYear(YearOf(ord))

MonthOf(ord) ==
    CHOOSE mm \in 1..12 :
        /\ DaysBeforeMonth(YearOf(ord), mm) < DayOfYear(ord)
        /\ DayOfYear(ord) <= DaysBeforeMonth(YearOf(ord), mm) + DaysInMonth(YearOf(ord), mm)

DayOf(ord) == DayOfYear(ord) - DaysBeforeMonth(YearOf(ord), MonthOf(ord))

Str(dt) ==
    Pad(YearOf(dt.day), 4) \o <<"-">> \o Pad(MonthOf(dt.day), 2) \o <<"-">>
    \o Pad(DayOf(dt.day), 2) \o <<" ">>
    \o Pad(dt.sec \div 3600, 2) \o <<":">> \o Pad((dt.sec \div 60) % 60, 2)
    \o <<":">> \o Pad(dt.sec % 60, 2)

(***************************************************************************)
(* band_name: the logical band name of a raster file.                      *)
(***************************************************************************)
\* The positions of the dots that start a suffix of the name.
SuffixDots(name) == {k \in 2..(Len(name) - 1) : name[k] = "."}

\* Path(name).stem: the name without its last suffix.
Stem(name) ==
    IF SuffixDots(name) = {} THEN name
    ELSE SubSeq(name, 1,
                (CHOOSE k \in SuffixDots(name) : \A j \in SuffixDots(name) : j <= k) - 1)

\* re.match(r"[Bb]\d+", s) is not None
MatchBandIndex(s) == Len(s) >= 2 /\ s[1] \in {"B", "b"} /\ s[2] \in Digits

\* The body of band_name, given name and position.
layername(path, name, position) ==
    IF position = -1 THEN Raise("ValueError", "Unexpected tif image in eods", path)
    ELSE IF MatchBandIndex(SliceFrom(name, position + 1))
        THEN Ok(SliceFrom(name, position + 2))
    ELSE Ok(SliceFrom(name, position + 1))

\* s.rfind(c) for a single character c.
RFind(s, c) ==
    IF \E k \in 1..Len(s) : s[k] = c
    THEN (CHOOSE k \in 1..Len(s) : s[k] = c /\ \A j \in (k + 1)..Len(s) : s[j] # c) - 1
    ELSE -1

\* band_name cutting at the last separator instead of the first.
band_nameLastSeparator(path) == layername(path, Stem(path), RFind(Stem(path), "_"))

band_name(path) == layername(path, Stem(path), Find(Stem(path), "_"))

(***************************************************************************)
(* prep_dataset.                                                           *)
(***************************************************************************)
\* The static ground-station table, as <<code, name>> pairs.  The program
\* defines it and never reads it.
STATIONS ==
    {
      <<<<"0","2","3">>, <<"T","K","S","C">>>>,
      <<<<"0","2","2">>, <<"S","G","S">>>>,
      <<<<"0","1","0">>, <<"G","N","C">>>>,
      <<<<"0","1","1">>, <<"H","O","A">>>>,
      <<<<"0","1","2">>, <<"H","E","O","C">>>>,
      <<<<"0","1","3">>, <<"I","K","R">>>>,
      <<<<"0","1","4">>, <<"K","I","S">>>>,
      <<<<"0","1","5">>, <<"L","G","S">>>>,
      <<<<"0","1","6">>, <<"M","G","R">>>>,
      <<<<"0","1","7">>, <<"M","O","R">>>>,
      <<<<"0","3","2">>, <<"L","G","N">>>>,
      <<<<"0","1","9">>, <<"M","T","I">>>>,
      <<<<"0","3","0">>, <<"K","H","C">>>>,
      <<<<"0","3","1">>, <<"M","L","K">>>>,
      <<<<"0","1","8">>, <<"M","P","S">>>>,
      <<<<"0","0","3">>, <<"B","J","C">>>>,
      <<<<"0","0","2">>, <<"A","S","N">>>>,
      <<<<"0","0","1">>, <<"A","G","S">>>>,
      <<<<"0","0","7">>, <<"D","K","I">>>>,
      <<<<"0","0","6">>, <<"C","U","B">>>>,
      <<<<"0","0","5">>, <<"C","H","M">>>>,
      <<<<"0","0","4">>, <<"B","K","T">>>>,
      <<<<"0","0","9">>, <<"G","L","C">>>>,
      <<<<"0","0","8">>, <<"E","D","C">>>>,
      <<<<"0","2","9">>, <<"J","S","A">>>>,
      <<<<"0","2","8">>, <<"C","O","A">>>>,
      <<<<"0","2","1">>, <<"P","F","S">>>>,
      <<<<"0","2","0">>, <<"P","A","C">>>> }

\* The scene duration in seconds.
SceneSeconds == 24

DotXml == <<".","x","m","l">>

AuxXml == <<"a","u","x",".","x","m","l">>

DotTif == <<".","t","i","f">>

\* The file the loop over os.listdir leaves in `metafile`: the last entry
\* whose name ends in ".xml" but not in "aux.xml"; unbound when there is none.
IsMetafile(file) == EndsWith(file.name, DotXml) /\ ~EndsWith(file.name, AuxXml)

RECURSIVE FindMetafile(_, _)
FindMetafile(listing, metafile) ==
    IF listing = <<>> THEN metafile
    ELSE FindMetafile(Tail(listing),
                      IF IsMetafile(Head(listing)) THEN Ok(Head(listing)) ELSE metafile)

UnboundLocal(v) == Raise("UnboundLocalError", v, <<>>)

\* The locals one pass of the loop over the global_metadata elements leaves.
GlobalMetadataLocals(gm, center_dt, aos) ==
    [satellite     |-> gm.satellite,
     instrument    |-> gm.instrument,
     center_dt     |-> center_dt,
     aos           |-> aos,
     los           |-> AddSeconds(aos, SceneSeconds),
     groundstation |-> Slice(gm.lpgs_metadata_file, 16, 19)]

\* The date+time string of a global_metadata element.
CenterTimeString(gm) ==
    RemoveChar(gm.acquisition_date, "-") \o <<"T">> \o Slice(gm.scene_center_time, 0, 8)

\* The pass, given the outcome of crazy_parse, with the start of the window
\* a whole scene duration before the center instead of half of one.
GlobalMetadataWholeScene(gm, center) ==
    IF ~center.ok THEN center
    ELSE Ok(GlobalMetadataLocals(gm, center.val, AddSeconds(center.val, 0 - SceneSeconds)))

GlobalMetadataStepWholeScene(gm) ==
    GlobalMetadataWholeScene(gm, crazy_parse(CenterTimeString(gm)))

\* The pass, given the outcome of crazy_parse.
GlobalMetadataBody(gm, center) ==
    IF ~center.ok THEN center
    ELSE Ok(GlobalMetadataLocals(gm, center.val,
                                 AddSeconds(center.val, 0 - (SceneSeconds \div 2))))

\* One pass of the loop over the global_metadata elements.
GlobalMetadataStep(gm) == GlobalMetadataBody(gm, crazy_parse(CenterTimeString(gm)))

\* The whole loop: the locals it leaves are those of the last element; a
\* failing element raises; with no element the locals stay unbound.
RECURSIVE GlobalMetadataLoop(_, _)
RECURSIVE GlobalMetadataContinue(_, _)
GlobalMetadataContinue(rest, step) ==
    IF ~step.ok THEN step ELSE GlobalMetadataLoop(rest, step)

GlobalMetadataLoop(gms, locals) ==
    IF gms = <<>> THEN locals
    ELSE GlobalMetadataContinue(Tail(gms), GlobalMetadataStep(Head(gms)))

\* dict[key] = value: an existing key keeps its position and takes the value.
DictPut(dict, key, value) ==
    IF \E k \in 1..Len(dict) : dict[k].key = key
    THEN [k \in 1..Len(dict) |->
             IF dict[k].key = key THEN [key |-> key, path |-> value] ELSE dict[k]]
    ELSE Append(dict, [key |-> key, path |-> value])

\* path.glob('*.tif'), in directory order.
GlobTif(listing) == SelectSeq(listing, LAMBDA file : EndsWith(file.name, DotTif))

\* The dict comprehension over the raster files.
RECURSIVE ImagesLoop(_, _)
RECURSIVE ImagesPut(_, _, _)
ImagesPut(tifs, images, key) ==
    IF ~key.ok THEN key
    ELSE ImagesLoop(Tail(tifs), DictPut(images, key.val, Head(tifs).name))

ImagesLoop(tifs, images) ==
    IF tifs = <<>> THEN Ok(images)
    ELSE ImagesPut(tifs, images, band_name(Head(tifs).name))

\* get_projection and populate_coord read the raster with rasterio and osr;
\* the model keeps which raster file they were given.
get_projection(path) == [raster |-> path]

get_coords(projection) == [geographic_of |-> projection.raster]

\* The document literal.
Document(fields, id, gm, images) ==
    [id               |-> id,
     processing_level |-> fields.level,
     product_type     |-> fields.type,
     creation_dt      |-> fields.creation_dt,
     platform         |-> gm.satellite,
     instrument       |-> gm.instrument,
     groundstation    |-> [name |-> gm.groundstation,
                           aos  |-> Str(gm.aos),
                           los  |-> Str(gm.los)],
     extent           |-> [from_dt   |-> Str(gm.aos),
                           to_dt     |-> Str(gm.los),
                           center_dt |-> Str(gm.center_dt),
                           coord     |-> get_coords(get_projection(images[1].path))],
     format           |-> "GeoTiff",
     grid_spatial     |-> get_projection(images[1].path),
     image            |-> [satellite_ref_point_start |->
                               [path |-> IntOf(fields.path), row |-> IntOf(fields.row)],
                           satellite_ref_point_end |->
                               [path |-> IntOf(fields.path), row |-> IntOf(fields.row)],
                           bands |-> images],
     lineage          |-> <<>> ]

\* prep_dataset from the dict comprehension on, given its outcome.
prep_datasetImages(fields, id, gm, images) ==
    IF ~images.ok THEN images
    ELSE IF images.val = <<>> THEN Raise("IndexError", "list index out of range", <<>>)
    ELSE Ok(Document(fields, id, gm, images.val))

\* prep_dataset after the loop over global_metadata, given its outcome.
prep_datasetLocals(fields, listing, id, locals) ==
    IF ~locals.ok THEN locals
    ELSE prep_datasetImages(fields, id, locals.val, ImagesLoop(GlobTif(listing), <<>>))

\* prep_dataset after the loop over os.listdir, given its outcome.
prep_datasetMetafile(fields, listing, id, metafile) ==
    IF ~metafile.ok THEN metafile
    ELSE prep_datasetLocals(fields, listing, id,
                            GlobalMetadataLoop(metafile.val.xml, UnboundLocal("aos")))

prep_dataset(fields, listing, id) ==
    prep_datasetMetafile(fields, listing, id,
                         FindMetafile(listing, UnboundLocal("metafile")))

(***************************************************************************)
(* prepare_datasets.                                                       *)
(***************************************************************************)
PlatformCodes == { <<"L","C","8">>, <<"L","E","7">>, <<"L","T","5">> }

\* re.match of the identifier grammar at the start of the stem.
MatchIdentifier(stem) ==
    /\ Len(stem) >= 16
    /\ Slice(stem, 0, 3) \in PlatformCodes
    /\ IsDigits(Slice(stem, 3, 16))

Midnight0101 ==
    <<"0","1","0","1","T","0","0",":","0","0",":","0","0">>

\* prepare_datasets after the match, given the outcome of crazy_parse on
\* January 1 of the product year.
prepare_datasetsFields(nbar_path, id, jan1) ==
    IF ~jan1.ok THEN jan1
    ELSE prep_dataset([code        |-> Slice(nbar_path.stem, 0, 3),
                       path        |-> Slice(nbar_path.stem, 3, 6),
                       row         |-> Slice(nbar_path.stem, 6, 9),
                       productyear |-> Slice(nbar_path.stem, 9, 13),
                       julianday   |-> Slice(nbar_path.stem, 13, 16),
                       level       |-> "sr_refl",
                       type        |-> "LEDAPS",
                       creation_dt |-> AddDays(jan1.val, IntOf(Slice(nbar_path.stem, 13, 16)))],
                      nbar_path.listing, id)

prepare_datasets(nbar_path, id) ==
    IF ~MatchIdentifier(nbar_path.stem)
    THEN Raise("AttributeError", "'NoneType' object has no attribute 'groupdict'", <<>>)
    ELSE prepare_datasetsFields(nbar_path, id,
                                crazy_parse(Slice(nbar_path.stem, 9, 13) \o Midnight0101))

(***************************************************************************)
(* The inputs: what the directories handed to main contain.  A directory   *)
(* is its base-name stem and its listing (in the order os.listdir and glob *)
(* return it); a file is its name and, for an XML sidecar, the sequence of *)
(* global_metadata elements ElementTree finds in it.                       *)
(***************************************************************************)
\* Texts of the acquisition_date element.
AcquisitionDates ==
    { <<"2","0","1","4","-","0","4","-","1","0">>,
      <<"2","0","1","4","-","1","2","-","3","1">>,
      <<"2","0","1","6","-","0","2","-","2","8">>,
      <<"2","0","1","5","-","0","2","-","2","9">>,
      <<"2","0","1","4","-","1","3","-","0","1">> }

\* Texts of the scene_center_time element.
SceneCenterTimes ==
    { <<"1","5",":","3","2",":","0","8",".","4","2","1","8","8","0","0","Z">>,
      <<"2","3",":","5","9",":","6","0",".","1","2","3","4","5","6","0","Z">>,
      <<"2","3",":","5","9",":","5","9",".","9","9","9","9","9","9","0","Z">>,
      <<"0","0",":","0","0",":","0","5",".","0","0","0","0","0","0","0","Z">>,
      <<"1","0",":","5","9",":","6","0">>,
      <<"2","3","5","9","6","0">>,
      <<"2","3",":","6","0">>,
      <<"2","4",":","0","0",":","0","0">>,
      <<"2","3",":","6","0",":","6","0">> }

LpgsLGN ==
    <<"L","C","8","0","1","2","0","3","1","2","0","1","4","1","0","0","L","G","N","0","0","_","M","T","L",".","t","x","t">>

Lpgs023 ==
    <<"L","E","7","0","1","2","0","3","1","2","0","1","4","1","0","0","0","2","3","0","0","_","M","T","L",".","t","x","t">>

LpgsShort ==
    <<"M","T","L",".","t","x","t">>

\* Texts of the lpgs_metadata_file element.
LpgsNames == { LpgsLGN, Lpgs023, LpgsShort }

StemLC8 ==
    <<"L","C","8","0","1","2","0","3","1","2","0","1","4","1","0","0","L","G","N","0","0">>

\* Directory base-name stems.
Stems ==
    { <<"L","C","8","0","1","2","0","3","1","2","0","1","4","1","0","0","L","G","N","0","0">>,
      <<"L","E","7","0","1","2","0","3","1","2","0","1","5","3","6","5","E","D","C","0","0">>,
      <<"L","T","5","0","1","2","0","3","1","2","0","1","6","0","0","1">>,
      <<"L","C","8","0","1","2","0","3","1","2","0","1","6","3","6","6","L","G","N","0","0">>,
      <<"L","M","1","0","1","2","0","3","1","2","0","1","4","1","0","0","L","G","N","0","0">>,
      <<"L","C","8","0","1","2","0","3","1","2","0","1","4","1","0">>,
      <<"L","C","8","_","1","2","0","3","1","2","0","1","4","1","0","0">>,
      <<"l","c","8","0","1","2","0","3","1","2","0","1","4","1","0","0">> }

AcqDate0 ==
    <<"2","0","1","4","-","0","4","-","1","0">>

CenterTime0 ==
    <<"1","5",":","3","2",":","0","8",".","4","2","1","8","8","0","0","Z">>

CenterTimeLeap ==
    <<"2","3",":","5","9",":","6","0",".","1","2","3","4","5","6","0","Z">>

NameA ==
    <<"a",".","x","m","l">>

NameB ==
    <<"b",".","x","m","l">>

NameAux ==
    <<"L","C","8","0","1","2","0","3","1","2","0","1","4","1","0","0","L","G","N","0","0","_","s","r","_","b","a","n","d","1",".","t","i","f",".","a","u","x",".","x","m","l">>

NameSrBand1 ==
    <<"L","C","8","0","1","2","0","3","1","2","0","1","4","1","0","0","L","G","N","0","0","_","s","r","_","b","a","n","d","1",".","t","i","f">>

NameCfmask ==
    <<"L","C","8","0","1","2","0","3","1","2","0","1","4","1","0","0","L","G","N","0","0","_","c","f","m","a","s","k",".","t","i","f">>

NameB1 ==
    <<"L","C","8","_","B","1",".","t","i","f">>

NameB10 ==
    <<"L","C","8","_","b","1","0","_","q","a",".","t","i","f">>

NameBx ==
    <<"L","C","8","_","B","q","a",".","t","i","f">>

NameNoSep ==
    <<"b","a","n","d","1",".","t","i","f">>

NameCfmask2 ==
    <<"L","E","7","_","c","f","m","a","s","k",".","t","i","f">>

StemSrBand1 ==
    <<"L","C","8","0","1","2","0","3","1","2","0","1","4","1","0","0","L","G","N","0","0","_","s","r","_","b","a","n","d","1">>

StemCfmask ==
    <<"L","C","8","0","1","2","0","3","1","2","0","1","4","1","0","0","L","G","N","0","0","_","c","f","m","a","s","k">>

GlobalMetadata(date, time, lpgs) ==
    [satellite           |-> "LANDSAT_8",
     instrument          |-> "OLI_TIRS",
     acquisition_date    |-> date,
     scene_center_time   |-> time,
     lpgs_metadata_file  |-> lpgs]

GM0 == GlobalMetadata(AcqDate0, CenterTime0, LpgsLGN)

\* A second, different metadata element.
GM7 ==
    [satellite           |-> "LANDSAT_7",
     instrument          |-> "ETM",
     acquisition_date    |-> AcqDate0,
     scene_center_time   |-> CenterTimeLeap,
     lpgs_metadata_file  |-> Lpgs023]

GlobalMetadatas ==
    {GlobalMetadata(d, t, LpgsLGN) : d \in AcquisitionDates, t \in SceneCenterTimes}
    \cup {GlobalMetadata(AcqDate0, CenterTime0, l) : l \in LpgsNames}

Xml(name, gms) == [name |-> name, xml |-> gms]

Tif(name) == [name |-> name, xml |-> <<>>]

Rasters0 == <<Tif(NameSrBand1), Tif(NameCfmask)>>

\* Listings that differ from the plain one in their sidecars or rasters.
Listings ==
    { Rasters0,
      <<Xml(NameA, <<GM0>>), Xml(NameB, <<GM7>>)>> \o Rasters0,
      <<Xml(NameB, <<GM7>>)>> \o Rasters0 \o <<Xml(NameA, <<GM0>>)>>,
      <<Xml(NameA, <<GM0>>), Xml(NameAux, <<>>)>> \o Rasters0,
      <<Xml(NameAux, <<>>)>> \o Rasters0,
      <<Xml(NameA, <<>>)>> \o Rasters0,
      <<Xml(NameA, <<GM0, GM7>>)>> \o Rasters0,
      <<Xml(NameA, <<GM0>>)>>,
      <<Xml(NameA, <<GM0>>), Tif(NameNoSep)>>,
      <<Xml(NameA, <<GM0>>), Tif(NameB1), Tif(NameB10), Tif(NameBx)>> \o Rasters0,
      <<Xml(NameA, <<GM0>>), Tif(NameCfmask), Tif(NameCfmask2)>> }

Directory(stem, listing) == [stem |-> stem, listing |-> listing]

Directory0 == Directory(StemLC8, <<Xml(NameA, <<GM0>>)>> \o Rasters0)

\* Every directory of the model.
Directories ==
    {Directory(s, Directory0.listing) : s \in Stems}
    \cup {Directory(StemLC8, <<Xml(NameA, <<g>>)>> \o Rasters0) : g \in GlobalMetadatas}
    \cup {Directory(StemLC8, l) : l \in Listings}

\* The directories that lists of several directories are made of.
BatchDirectories ==
    { Directory0,
      Directory(<<"L","M","1">>, Directory0.listing),
      Directory(StemLC8, Rasters0),
      Directory(StemLC8, <<Xml(NameA, <<GM0>>), Xml(NameB, <<GM7>>)>> \o Rasters0),
      Directory(StemLC8, <<Xml(NameA, <<GM7>>)>> \o Rasters0) }

\* The sequences of length n over S.
RECURSIVE SeqsOf(_, _)
SeqsOf(S, n) ==
    IF n = 0 THEN {<<>>} ELSE {Append(q, d) : q \in SeqsOf(S, n - 1), d \in S}

(***************************************************************************)
(* main.                                                                   *)
(***************************************************************************)
VARIABLES
    datasets,   \* the directories on the command line
    yaml,       \* yaml[k]: the file agdc-metadata.yaml of directory k
    pc,         \* where main is
    i,          \* the number of the directory the loop is at (0 before the loop)
    documents,  \* the document prepare_datasets returned
    err         \* the exception that left main

vars == <<datasets, yaml, pc, i, documents, err>>

NoValue == [ok |-> FALSE, exc |-> "None", msg |-> "", arg |-> <<>>]

\* What a write of the document that raises OSError leaves in the file.
FailedWrites == {"empty", "partial"}

File(state, doc) == [state |-> state, doc |-> doc]

Init ==
    /\ \E n \in 1..MaxDirs :
         datasets \in IF n = 1 THEN SeqsOf(Directories, 1) ELSE SeqsOf(BatchDirectories, n)
    /\ yaml = [k \in 1..Len(datasets) |-> File("absent", NoValue)]
    /\ pc = "for"
    /\ i = 0
    /\ documents = NoValue
    /\ err = NoValue

\* for dataset in datasets: the next directory.
ForNext ==
    /\ pc = "for"
    /\ i < Len(datasets)
    /\ i' = i + 1
    /\ pc' = "prepare_datasets"
    /\ UNCHANGED <<datasets, yaml, documents, err>>

\* for dataset in datasets: the list is exhausted, main returns.
ForEnd ==
    /\ pc = "for"
    /\ i = Len(datasets)
    /\ pc' = "done"
    /\ UNCHANGED <<datasets, yaml, i, documents, err>>

\* The assignment of the outcome of prepare_datasets: an exception leaves main.
PrepareDatasetsResult(result) ==
    IF result.ok
    THEN /\ documents' = result
         /\ pc' = "open"
         /\ err' = err
    ELSE /\ err' = result
         /\ pc' = "raised"
         /\ documents' = documents

\* documents = prepare_datasets(path)
PrepareDatasets ==
    /\ pc = "prepare_datasets"
    /\ \E id \in 1..NumUuids : PrepareDatasetsResult(prepare_datasets(datasets[i], id))
    /\ UNCHANGED <<datasets, yaml, i>>

\* open(yaml_path, 'w'): the file is created, or truncated.
OpenYaml ==
    /\ pc = "open"
    /\ yaml' = [yaml EXCEPT ![i] = File("empty", NoValue)]
    /\ pc' = "yaml.dump"
    /\ UNCHANGED <<datasets, i, documents, err>>

\* yaml.dump(dataset, stream) writes the whole document and the file is closed.
YamlDump ==
    /\ pc = "yaml.dump"
    /\ yaml' = [yaml EXCEPT ![i] = File("complete", documents.val)]
    /\ pc' = "for"
    /\ UNCHANGED <<datasets, i, documents, err>>

\* yaml.dump(dataset, stream): a write to the stream raises OSError (the
\* device is full, the medium fails); the with statement closes the file and
\* the exception leaves main.
YamlDumpRaises ==
    /\ pc = "yaml.dump"
    /\ \E written \in FailedWrites :
         yaml' = [yaml EXCEPT ![i] = File(written, documents.val)]
    /\ err' = Raise("OSError", "write failed", <<>>)
    /\ pc' = "raised"
    /\ UNCHANGED <<datasets, i, documents>>

Next ==
    \/ ForNext
    \/ ForEnd
    \/ PrepareDatasets
    \/ OpenYaml
    \/ YamlDump
    \/ YamlDumpRaises

Spec == Init /\ [][Next]_vars


(***************************************************************************)
(* Properties.                                                             *)
(***************************************************************************)
\* The directory the loop is at.
Current == datasets[i]

\* prepare_datasets has just returned the document of the current directory.
Produced == pc = "open"

\* prepare_datasets has just raised on the current directory.
PrepareRaised == pc = "raised" /\ err.exc # "OSError"

\* main has stopped, by returning or by an exception.
Stopped == pc \in {"done", "raised"}

\* The positions in a listing of the files whose name ends in ".xml" but not
\* in "aux.xml".
Sidecars(listing) ==
    {k \in 1..Len(listing) :
        /\ EndsWith(listing[k].name, <<".","x","m","l">>)
        /\ ~EndsWith(listing[k].name, <<"a","u","x",".","x","m","l">>)}

\* The directory has one sidecar, and it holds one global_metadata element.
OneSidecar(dir) ==
    /\ Cardinality(Sidecars(dir.listing)) = 1
    /\ \A k \in Sidecars(dir.listing) : Len(dir.listing[k].xml) = 1

\* The global_metadata element of a directory with one sidecar.
SoleMetadata(dir) ==
    dir.listing[CHOOSE k \in Sidecars(dir.listing) : TRUE].xml[1]

\* The raster files of a listing, and the part of a raster name after the
\* first separator of its stem (<<>> when it has none).
Rasters(listing) ==
    {k \in 1..Len(listing) : EndsWith(listing[k].name, <<".","t","i","f">>)}

HasSeparator(name) == \E k \in 1..(Len(name) - 4) : name[k] = "_"

AfterSeparator(name) ==
    LET stem == SubSeq(name, 1, Len(name) - 4)
        p    == CHOOSE k \in 1..Len(stem) :
                    stem[k] = "_" /\ \A j \in 1..(k - 1) : stem[j] # "_"
    IN  SubSeq(stem, p + 1, Len(stem))

\* The rasters of the directory can all be named, and there is one.
RastersNamed(dir) ==
    /\ Rasters(dir.listing) # {}
    /\ \A k \in Rasters(dir.listing) : HasSeparator(dir.listing[k].name)

BandKeys(doc) == {doc.image.bands[k].key : k \in 1..Len(doc.image.bands)}

\* The datetime a text "YYYY-MM-DD HH:MM:SS" of a document denotes.
FromStr(s) ==
    DateTime(IntOf(SubSeq(s, 1, 4)), IntOf(SubSeq(s, 6, 7)), IntOf(SubSeq(s, 9, 10)),
             IntOf(SubSeq(s, 12, 13)), IntOf(SubSeq(s, 15, 16)), IntOf(SubSeq(s, 18, 19)))

\* C1: when main has stopped, every directory's agdc-metadata.yaml is either
\* untouched or holds the complete document: no empty or partial file is left
\* behind by a failure.
AllOrNothingWrite ==
    Stopped => \A k \in DOMAIN yaml : yaml[k].state \in {"absent", "complete"}

\* C2: a failure on one directory does not keep main from attempting the
\* directories after it: when main has stopped, the loop has reached every
\* directory of the list.
BatchContinuesAfterFailure ==
    Stopped => i = Len(datasets)

\* C3: a document is produced only for a directory with exactly one file whose
\* name ends in ".xml" but not in "aux.xml".
DocumentNeedsOneSidecar ==
    Produced => Cardinality(Sidecars(Current.listing)) = 1

\* C4: the ground-station name of a produced document is the name the station
\* table gives for the code at offset 16-19 of the source-metadata filename
\* (so a code that is not in the table produces no document).
GroundStationResolved ==
    (Produced /\ OneSidecar(Current)) =>
        \E st \in STATIONS :
            /\ st[1] = Slice(SoleMetadata(Current).lpgs_metadata_file, 16, 19)
            /\ documents.val.groundstation.name = st[2]

\* C5: on a directory whose stem does not match the identifier grammar,
\* prepare_datasets raises a ParseError that names the stem, and neither a
\* document nor a file is produced.
MalformedIdentifierParseError ==
    (i >= 1 /\ pc # "prepare_datasets" /\ ~MatchIdentifier(Current.stem)) =>
        /\ pc = "raised"
        /\ err.exc = "ParseError"
        /\ err.arg = Current.stem
        /\ yaml[i].state = "absent"

\* The date+time string prep_dataset hands to crazy_parse.
TimeString(gm) ==
    RemoveChar(gm.acquisition_date, "-") \o <<"T">> \o Slice(gm.scene_center_time, 0, 8)

\* The string is a valid date and time but for its seconds field, which is 60.
LeapSecondString(ts) ==
    /\ Len(ts) >= 9 /\ IsDigits(Slice(ts, 0, 8)) /\ ts[9] = "T"
    /\ LET y  == IntOf(Slice(ts, 0, 4))
           m  == IntOf(Slice(ts, 4, 6))
           d  == IntOf(Slice(ts, 6, 8))
           tf == TimeFields(SliceFrom(ts, 9))
       IN  /\ Len(SliceFrom(ts, 9)) \in {6, 8}
           /\ tf # <<>>
           /\ y >= 1 /\ m \in 1..12 /\ d \in 1..DaysInMonth(y, m)
           /\ tf[1] <= 23 /\ tf[2] <= 59 /\ tf[3] = 60

\* The first second of the minute after hh:mm of the day y-m-d, rolling over
\* the hour, the day, the month and the year.
FollowingMinute(y, m, d, hh, mm) ==
    IF mm < 59 THEN DateTime(y, m, d, hh, mm + 1, 0)
    ELSE IF hh < 23 THEN DateTime(y, m, d, hh + 1, 0, 0)
    ELSE IF d < DaysInMonth(y, m) THEN DateTime(y, m, d + 1, 0, 0, 0)
    ELSE IF m < 12 THEN DateTime(y, m + 1, 1, 0, 0, 0)
    ELSE DateTime(y + 1, 1, 1, 0, 0, 0)

FollowingMinuteOf(ts) ==
    LET tf == TimeFields(SliceFrom(ts, 9))
    IN  FollowingMinute(IntOf(Slice(ts, 0, 4)), IntOf(Slice(ts, 4, 6)),
                        IntOf(Slice(ts, 6, 8)), tf[1], tf[2])

\* The current directory is one where nothing but the time string can fail.
OnlyTimeCanFail ==
    /\ i >= 1
    /\ Produced \/ PrepareRaised
    /\ MatchIdentifier(Current.stem)
    /\ OneSidecar(Current)
    /\ RastersNamed(Current)

\* C7: a string whose seconds field is 60 and that is otherwise valid resolves
\* to the first second of the following minute; a string that fails to parse
\* for any other reason raises that parse failure.
LeapSecondOnlyCorrection ==
    OnlyTimeCanFail =>
        LET ts == TimeString(SoleMetadata(Current))
        IN  /\ LeapSecondString(ts) =>
                   /\ Produced
                   /\ documents.val.extent.center_dt = Str(FollowingMinuteOf(ts))
            /\ (~Parse(ts).ok /\ ~LeapSecondString(ts)) =>
                   /\ PrepareRaised
                   /\ err = Parse(ts)

\* C8: in a produced document, with T the center time, aos = from_dt,
\* los = to_dt, T - aos = 12 s, los - T = 12 s and los - aos = 24 s.
AcquisitionWindowSymmetric ==
    Produced =>
        LET d == documents.val
            T == FromStr(d.extent.center_dt)
            A == FromStr(d.groundstation.aos)
            L == FromStr(d.groundstation.los)
        IN  /\ d.groundstation.aos = d.extent.from_dt
            /\ d.groundstation.los = d.extent.to_dt
            /\ SecondsBetween(T, A) = 12
            /\ SecondsBetween(L, T) = 12
            /\ SecondsBetween(L, A) = 24

\* A document was produced from a leap-second time string, and its window
\* starts on the day before its center.
WindowAcrossMidnight ==
    /\ Produced
    /\ OneSidecar(Current)
    /\ LeapSecondString(TimeString(SoleMetadata(Current)))
    /\ SubSeq(documents.val.groundstation.aos, 1, 10)
           # SubSeq(documents.val.extent.center_dt, 1, 10)

BandSrBand1 ==
    <<"s","r","_","b","a","n","d","1">>

BandBand1 ==
    <<"b","a","n","d","1">>

BandCfmask ==
    <<"c","f","m","a","s","k">>

\* The text with the band-index pattern (a B or b and the digits after it)
\* removed from its front.
RECURSIVE DropDigits(_)
DropDigits(s) == IF s # <<>> /\ Head(s) \in Digits THEN DropDigits(Tail(s)) ELSE s

BeginsWithBandIndex(rest) == Len(rest) >= 2 /\ rest[1] \in {"B", "b"} /\ rest[2] \in Digits

\* C9 as the specification states it: the band of a raster whose stem has a
\* separator is what follows the band-index pattern when the text after the
\* first separator begins with one, and otherwise what follows the separator;
\* ..._sr_band1 gives band1 and ..._cfmask gives cfmask.
BandNameAfterPattern ==
    Produced =>
        \A k \in Rasters(Current.listing) :
            LET name == Current.listing[k].name
                rest == AfterSeparator(name)
            IN  HasSeparator(name) =>
                    /\ (IF BeginsWithBandIndex(rest) THEN DropDigits(Tail(rest)) ELSE rest)
                           \in BandKeys(documents.val)
                    /\ name = NameSrBand1 => BandBand1 \in BandKeys(documents.val)
                    /\ name = NameCfmask => BandCfmask \in BandKeys(documents.val)

\* C9: the band of a raster whose stem has a separator is what follows the
\* letter B or b (its digits included) when the text after the first separator
\* begins with the band-index pattern, and otherwise what follows the
\* separator; ..._sr_band1 gives sr_band1 and ..._cfmask gives cfmask.
BandNameAfterLetter ==
    Produced =>
        \A k \in Rasters(Current.listing) :
            LET name == Current.listing[k].name
                rest == AfterSeparator(name)
            IN  HasSeparator(name) =>
                    /\ (IF BeginsWithBandIndex(rest) THEN Tail(rest) ELSE rest)
                           \in BandKeys(documents.val)
                    /\ name = NameSrBand1 => BandSrBand1 \in BandKeys(documents.val)
                    /\ name = NameCfmask => BandCfmask \in BandKeys(documents.val)

\* A document was produced for a directory holding a raster with a band index
\* after the separator, and rasters with several separators and with one.
BandsOfEveryShape ==
    /\ Produced
    /\ \E k \in Rasters(Current.listing) :
           BeginsWithBandIndex(AfterSeparator(Current.listing[k].name))
    /\ \E k \in Rasters(Current.listing) : Current.listing[k].name = NameSrBand1
    /\ \E k \in Rasters(Current.listing) : Current.listing[k].name = NameCfmask

\* C10: the creation_dt of a produced document is midnight of the day the
\* identifier's year and day-of-year denote, day 001 being January 1; day 100
\* of 2014 is 2014-04-10.
CreationDateIsDayOfYear ==
    Produced =>
        LET year == IntOf(SubSeq(Current.stem, 10, 13))
            doy  == IntOf(SubSeq(Current.stem, 14, 16))
        IN  /\ doy \in 1..(IF IsLeap(year) THEN 366 ELSE 365) =>
                   documents.val.creation_dt = [day |-> Ymd2Ord(year, 1, 1) + doy - 1, sec |-> 0]
            /\ (year = 2014 /\ doy = 100) =>
                   documents.val.creation_dt = DateTime(2014, 4, 10, 0, 0, 0)

====
